---- MODULE Spec2Model ----
(***************************************************************************)
(* A model of the GameGrid class of minesweeper.py: the grid of Squares,   *)
(* its three counters, and the public operations that mutate them.         *)
(***************************************************************************)
EXTENDS Integers, Sequences, FiniteSets, TLC

\* The grids constructed, GameGrid(nrows, ncols), have at most MaxCells squares:
\* 1x1 up to 1x4, 2x2 and 4x1.
MaxCells == 4
\* place_mine / random_game are exercised while nmines stays within MaxMines
\* (half the squares of the largest grid), place_flag while nflags stays within
\* MaxFlags (a quarter of them).
MaxMines == MaxCells \div 2
MaxFlags == MaxCells \div 4

VARIABLES nrows, ncols, tab, nmines, nflags, squares_revealed, last,
          raised, asked, stack, marked, started, root

vars == <<nrows, ncols, tab, nmines, nflags, squares_revealed, last,
          raised, asked, stack, marked, started, root>>

\* range(n)
Range(n) == 0 .. (n - 1)

\* The positions of tab: tab[i][j] for i in range(nrows), j in range(ncols).
Cells(g) == Range(g.nrows) \X Range(g.ncols)

----------------------------------------------------------------------------
(* Square *)

\* Square.__init__ / Square.reset: the blank state of a square.
Square == [revealed |-> FALSE, flagged |-> FALSE, mined |-> FALSE, mines_nearby |-> 0]

----------------------------------------------------------------------------
(* GameGrid: pure queries.  A grid value g is a record of the object's     *)
(* fields [tab, nmines, nflags, squares_revealed].                         *)

\* GameGrid.__init__
GameGrid(r, c) ==
    [nrows |-> r, ncols |-> c, nmines |-> 0, nflags |-> 0,
     tab |-> [p \in Range(r) \X Range(c) |-> Square], squares_revealed |-> 0]

\* A Python list index k into a list of length n: negative k counts from the end.
ListIndex(k, n) == IF k < 0 THEN k + n ELSE k

\* The position of the Square that tab[i][j] denotes.
pos(g, i, j) == <<ListIndex(i, g.nrows), ListIndex(j, g.ncols)>>

square_at(g, i, j) == g.tab[pos(g, i, j)]

\* tab[i][j] raises IndexError unless -nrows <= i < nrows and -ncols <= j < ncols.
index_raises(g, i, j) == i < -g.nrows \/ i >= g.nrows \/ j < -g.ncols \/ j >= g.ncols

is_revealed(g, i, j) == square_at(g, i, j).revealed

is_flagged(g, i, j) == square_at(g, i, j).flagged

mine_at(g, i, j) == square_at(g, i, j).mined

mines_nearby(g, i, j) == square_at(g, i, j).mines_nearby

\* Iteration order of the set literal {-1,0,1} in CPython.
Offsets == <<0, 1, -1>>

\* All (m, l) pairs in the order of the two nested loops.
OffsetPairs ==
    [k \in 1 .. 9 |-> <<Offsets[((k - 1) \div 3) + 1], Offsets[((k - 1) % 3) + 1]>>]

\* neighbors_keep without the test that skips (i, j) itself.
neighbors_keep_with_self(g, i, j, m, l) ==
    i + m >= 0 /\ i + m < g.nrows /\ j + l >= 0 /\ j + l < g.ncols

\* neighbors_keep that keeps only the four neighbours sharing a side.
neighbors_keep_orthogonal(g, i, j, m, l) ==
    /\ ~(m = l /\ m = 0)
    /\ (m = 0 \/ l = 0)
    /\ i + m >= 0 /\ i + m < g.nrows /\ j + l >= 0 /\ j + l < g.ncols

\* The test of line 104-106: (m, l) is not (0, 0) and (i+m, j+l) is on the grid.
neighbors_keep(g, i, j, m, l) ==
    /\ ~(m = l /\ m = 0)
    /\ i + m >= 0 /\ i + m < g.nrows /\ j + l >= 0 /\ j + l < g.ncols

RECURSIVE neighbors_from(_, _, _, _)
\* The list ls built by the loop iterations k, k+1, ..., 9.
neighbors_from(g, i, j, k) ==
    IF k > Len(OffsetPairs) THEN <<>>
    ELSE (IF neighbors_keep(g, i, j, OffsetPairs[k][1], OffsetPairs[k][2])
          THEN << <<i + OffsetPairs[k][1], j + OffsetPairs[k][2]>> >>
          ELSE <<>>) \o neighbors_from(g, i, j, k + 1)

\* The list of valid neighbouring positions of (i, j).
neighbors(g, i, j) == neighbors_from(g, i, j, 1)

RECURSIVE flags_count(_, _)
flags_count(g, ns) ==
    IF ns = <<>> THEN 0
    ELSE (IF square_at(g, Head(ns)[1], Head(ns)[2]).flagged THEN 1 ELSE 0)
         + flags_count(g, Tail(ns))

flags_nearby(g, i, j) == flags_count(g, neighbors(g, i, j))

\* The double loop of game_lost: some (i, j) with mine_at and is_revealed.
game_lost(g) ==
    \E i \in Range(g.nrows) : \E j \in Range(g.ncols) :
        mine_at(g, i, j) /\ is_revealed(g, i, j)

\* game_won without the game_lost test.
game_won_by_count(g) == (g.nrows * g.ncols - g.squares_revealed) = g.nmines

game_won(g) ==
    (~game_lost(g)) /\ (g.nrows * g.ncols - g.squares_revealed) = g.nmines

----------------------------------------------------------------------------
(* GameGrid: operations, as functions from grid value to grid value.       *)

reset(g) ==
    [g EXCEPT !.tab = [p \in Cells(g) |-> Square],
              !.nmines = 0, !.nflags = 0, !.squares_revealed = 0]

\* reveal_mark without the increment of squares_revealed.
reveal_mark_uncounted(g, i, j) == [g EXCEPT !.tab[pos(g, i, j)].revealed = TRUE]

\* Lines 145-147 of reveal: mark the square and count it.
reveal_mark(g, i, j) ==
    [g EXCEPT !.tab[pos(g, i, j)].revealed = TRUE,
              !.squares_revealed = g.squares_revealed + 1]

\* reveal_skips without the flag test.
reveal_skips_revealed_only(g, i, j) == is_revealed(g, i, j)

\* reveal_skips without the revealed test.
reveal_skips_flagged_only(g, i, j) == is_flagged(g, i, j)

\* The guard of reveal: nothing happens on a revealed or flagged square.
reveal_skips(g, i, j) == is_revealed(g, i, j) \/ is_flagged(g, i, j)

\* reveal_cascades without the mine test.
reveal_cascades_ignoring_mine(g, i, j) == mines_nearby(g, i, j) = 0

\* reveal_cascades that also spreads from a square with one mine nearby.
reveal_cascades_up_to_one(g, i, j) ==
    square_at(g, i, j).mined = FALSE /\ mines_nearby(g, i, j) <= 1

\* The condition under which reveal recurses into the neighbours.
reveal_cascades(g, i, j) == square_at(g, i, j).mined = FALSE /\ mines_nearby(g, i, j) = 0

RECURSIVE reveal(_, _, _)
RECURSIVE reveal_each(_, _)

\* The loop "for neighbor in ...: self.reveal(x, y)" of reveal and chording.
\* Each call returns (h is its result) before the next iteration starts.
reveal_each(g, ns) ==
    IF ns = <<>> THEN g
    ELSE CHOOSE r \in {reveal_each(h, Tail(ns)) :
                         h \in {reveal(g, Head(ns)[1], Head(ns)[2])}} : TRUE

\* Lines 148-151 of reveal, run on the grid with the square already marked.
reveal_spread(g, i, j) ==
    IF reveal_cascades(g, i, j) THEN reveal_each(g, neighbors(g, i, j)) ELSE g

reveal(g, i, j) ==
    IF reveal_skips(g, i, j) THEN g
    ELSE reveal_spread(reveal_mark(g, i, j), i, j)

\* chording that also fires when the flags outnumber mines_nearby.
chording_at_least(g, i, j) ==
    IF flags_nearby(g, i, j) >= mines_nearby(g, i, j)
    THEN reveal_each(g, neighbors(g, i, j))
    ELSE g

chording(g, i, j) ==
    IF flags_nearby(g, i, j) = mines_nearby(g, i, j)
    THEN reveal_each(g, neighbors(g, i, j))
    ELSE g

place_flag(g, i, j) ==
    IF ~square_at(g, i, j).flagged
    THEN [g EXCEPT !.tab[pos(g, i, j)].flagged = TRUE, !.nflags = g.nflags + 1]
    ELSE g

remove_flag(g, i, j) ==
    IF square_at(g, i, j).flagged
    THEN [g EXCEPT !.tab[pos(g, i, j)].flagged = FALSE, !.nflags = g.nflags - 1]
    ELSE g

\* tab[x][y].mines_nearby += 1
bump(g, x, y) ==
    [g EXCEPT !.tab[pos(g, x, y)].mines_nearby = square_at(g, x, y).mines_nearby + 1]

RECURSIVE bump_each(_, _)
\* The loop of place_mine over the neighbours ns.
bump_each(g, ns) ==
    IF ns = <<>> THEN g
    ELSE CHOOSE r \in {bump_each(h, Tail(ns)) : h \in {bump(g, Head(ns)[1], Head(ns)[2])}} : TRUE

\* place_mine_new without the increment of nmines.
place_mine_new_uncounted(g, i, j) ==
    bump_each([g EXCEPT !.tab[pos(g, i, j)].mined = TRUE], neighbors(g, i, j))

\* place_mine_new that builds the mined square from a blank one.
place_mine_new_blank_square(g, i, j) ==
    [bump_each([g EXCEPT !.tab[pos(g, i, j)] =
                            [Square EXCEPT !.mined = TRUE,
                                           !.mines_nearby = square_at(g, i, j).mines_nearby]],
               neighbors(g, i, j))
        EXCEPT !.nmines = g.nmines + 1]

\* Lines 214-218 of place_mine, the branch taken on a square without a mine.
place_mine_new(g, i, j) ==
    [bump_each([g EXCEPT !.tab[pos(g, i, j)].mined = TRUE], neighbors(g, i, j))
        EXCEPT !.nmines = g.nmines + 1]

\* place_mine that counts a mine again when the square is already mined.
place_mine_recounting(g, i, j) ==
    IF g.tab[pos(g, i, j)].mined = TRUE THEN [g EXCEPT !.nmines = g.nmines + 1]
    ELSE place_mine_new(g, i, j)

\* place_mine without the test for a mine already there.
place_mine_unguarded(g, i, j) == place_mine_new(g, i, j)

place_mine(g, i, j) ==
    IF g.tab[pos(g, i, j)].mined = TRUE THEN g
    ELSE place_mine_new(g, i, j)

RECURSIVE place_mines(_, _)
\* The loop of random_game over the sampled list of positions.
place_mines(g, sample) ==
    IF sample = <<>> THEN g
    ELSE CHOOSE r \in {place_mines(h, Tail(sample)) :
                         h \in {place_mine(g, Head(sample)[1], Head(sample)[2])}} : TRUE

\* random_game without the call of reset.
random_game_without_reset(g, sample) == place_mines(g, sample)

\* random_game once random.sample has returned the list `sample`.
random_game(g, sample) == place_mines(reset(g), sample)

----------------------------------------------------------------------------
(* The state machine: one GameGrid object and the calls made on it.        *)

\* The object's fields as a grid value.
Grid == [nrows |-> nrows, ncols |-> ncols, tab |-> tab, nmines |-> nmines,
         nflags |-> nflags, squares_revealed |-> squares_revealed]

\* The variables beside the object's fields:
\*   last     the last call made and what it did to the counters;
\*   raised   the exception that call ended with, "" when it returned;
\*   asked    the number of mines asked of random_game, when that was the call;
\*   stack    the frames (i, j, k) of the calls of reveal in progress, the
\*            frame being at its k-th neighbour (0: it has not yet tested the square);
\*   marked   the squares marked revealed since the outermost reveal was called;
\*   started, root   the fields of a MinesweeperApp driving the object.

\* What a call did to the counters: squares newly revealed, flags and mines added.
Effect(g, h) ==
    <<h.squares_revealed - g.squares_revealed, h.nflags - g.nflags, h.nmines - g.nmines>>

\* The call `op` ends with the object's fields equal to those of h: it returns
\* (exc is "") or it raises the exception exc.  n is the number of mines a call
\* of random_game was asked for, 0 for any other call.
Outcome(h, op, exc, n) ==
    /\ nrows' = h.nrows
    /\ ncols' = h.ncols
    /\ tab' = h.tab
    /\ nmines' = h.nmines
    /\ nflags' = h.nflags
    /\ squares_revealed' = h.squares_revealed
    /\ last' = <<op, Effect(Grid, h)>>
    /\ raised' = exc
    /\ asked' = n
    /\ UNCHANGED <<stack, marked, started, root>>

\* The object's fields become those of h, and the call `op` is recorded.
Assign(h, op) == Outcome(h, op, "", 0)

\* The call `op` raises exc, leaving the object's fields equal to those of h.
Raises(h, op, exc, n) == \E k \in {h} : Outcome(k, op, exc, n)

\* The call `op` returns with the object's fields equal to the grid value result.
Becomes(result, op) == \E h \in {result} : Assign(h, op)

\* The lists random.sample can return: n distinct positions, in any order.
RECURSIVE Samples(_, _)
Samples(g, n) ==
    IF n = 0 THEN {<<>>}
    ELSE UNION {{Append(s, p) : p \in Cells(g) \ {s[k] : k \in 1 .. (n - 1)}} :
                s \in Samples(g, n - 1)}

\* Samples for the grids of at most MaxCells squares and n up to MaxMines, as
\* a table, so that it is computed once and not in every state.
SamplesTable ==
    [d \in {e \in (1 .. MaxCells) \X (1 .. MaxCells) : e[1] * e[2] <= MaxCells} |->
        [n \in 0 .. MaxMines |-> Samples([nrows |-> d[1], ncols |-> d[2]], n)]]

SamplesOf(g, n) ==
    IF g.nrows * g.ncols <= MaxCells /\ n \in 0 .. MaxMines
    THEN SamplesTable[<<g.nrows, g.ncols>>][n]
    ELSE Samples(g, n)

\* random_sample that takes the whole population when asked for more.
random_sample_clamped(g, n) ==
    {[raised |-> "", value |-> s] :
        s \in Samples(g, IF n > g.nrows * g.ncols THEN g.nrows * g.ncols ELSE n)}

\* random.sample(population, k) on the list of all positions: ValueError unless
\* 0 <= k <= len(population), otherwise some list of k distinct positions.
random_sample(g, n) ==
    IF n < 0 \/ n > g.nrows * g.ncols
    THEN {[raised |-> "ValueError", value |-> <<>>]}
    ELSE {[raised |-> "", value |-> s] : s \in SamplesOf(g, n)}

\* g = GameGrid(r, c) has just been constructed.
Constructed(r, c) ==
    /\ nrows = r
    /\ ncols = c
    /\ tab = GameGrid(r, c).tab
    /\ nmines = GameGrid(r, c).nmines
    /\ nflags = GameGrid(r, c).nflags
    /\ squares_revealed = GameGrid(r, c).squares_revealed
    /\ last = <<"init", <<0, 0, 0>>>>
    /\ raised = ""
    /\ asked = 0
    /\ stack = <<>>
    /\ marked = <<>>
    /\ started = FALSE
    /\ root = "none"

\* g = GameGrid(r, c), for any dimensions giving at most MaxCells squares.
Init == \E r, c \in 1 .. MaxCells : r * c <= MaxCells /\ Constructed(r, c)

Reset == Becomes(reset(Grid), "reset")

\* Each method addressed at (i, j) raises IndexError at its first tab[i][j],
\* before it has changed anything.
PlaceMine(i, j) ==
    IF index_raises(Grid, i, j) THEN Raises(Grid, "place_mine", "IndexError", 0)
    ELSE /\ (nmines < MaxMines \/ mine_at(Grid, i, j))
         /\ Becomes(place_mine(Grid, i, j), "place_mine")

\* random_game(n): reset() has run when random.sample raises; otherwise the
\* mines are placed on the sampled positions.
RandomGame(n) ==
    \E r \in random_sample(Grid, n) :
        IF r.raised # ""
        THEN Raises(reset(Grid), "random_game", r.raised, n)
        ELSE \E h \in {random_game(Grid, r.value)} : Outcome(h, "random_game", "", n)

Reveal(i, j) ==
    IF index_raises(Grid, i, j) THEN Raises(Grid, "reveal", "IndexError", 0)
    ELSE Becomes(reveal(Grid, i, j), "reveal")

Chording(i, j) ==
    IF index_raises(Grid, i, j) THEN Raises(Grid, "chording", "IndexError", 0)
    ELSE Becomes(chording(Grid, i, j), "chording")

PlaceFlag(i, j) ==
    IF index_raises(Grid, i, j) THEN Raises(Grid, "place_flag", "IndexError", 0)
    ELSE /\ (nflags < MaxFlags \/ is_flagged(Grid, i, j))
         /\ Becomes(place_flag(Grid, i, j), "place_flag")

RemoveFlag(i, j) ==
    IF index_raises(Grid, i, j) THEN Raises(Grid, "remove_flag", "IndexError", 0)
    ELSE Becomes(remove_flag(Grid, i, j), "remove_flag")

\* The queries is_revealed, is_flagged, mine_at and mines_nearby: each returns a
\* field of square_at(i, j), or raises its IndexError; the board is not changed.
Queries == {"is_revealed", "is_flagged", "mine_at", "mines_nearby"}

Query(q, i, j) ==
    IF index_raises(Grid, i, j) THEN Raises(Grid, q, "IndexError", 0)
    ELSE Becomes(Grid, q)

Next ==
    \/ Reset
    \/ \E n \in 0 .. (MaxCells + 1) :
          (n <= MaxMines \/ n > nrows * ncols) /\ RandomGame(n)
    \/ \E i \in Range(nrows), j \in Range(ncols) : PlaceMine(i, j)
    \/ \E i \in Range(nrows), j \in Range(ncols) : Reveal(i, j)
    \/ \E i \in Range(nrows), j \in Range(ncols) : Chording(i, j)
    \/ \E i \in Range(nrows), j \in Range(ncols) : PlaceFlag(i, j)
    \/ \E i \in Range(nrows), j \in Range(ncols) : RemoveFlag(i, j)

Spec == Init /\ [][Next]_vars

----------------------------------------------------------------------------
(* Vocabulary of the properties, stated on the fields themselves.          *)

\* The positions of the grid.
Positions == Range(nrows) \X Range(ncols)

\* p and q are different positions that touch by a side or a corner.
Adjacent(p, q) ==
    /\ p # q
    /\ p[1] - q[1] \in {-1, 0, 1}
    /\ p[2] - q[2] \in {-1, 0, 1}

Flagged == {p \in Positions : tab[p].flagged}
Revealed == {p \in Positions : tab[p].revealed}
Mined == {p \in Positions : tab[p].mined}

\* The revealed-count equality that game_won tests.
CountEquality == (nrows * ncols - squares_revealed) = nmines

\* The step is the return of a call of the method `op`.
Returns(op) == last'[1] = op

\* The board (every field of the object) is left as it was.
BoardUnchanged == UNCHANGED <<nrows, ncols, tab, nmines, nflags, squares_revealed>>

----------------------------------------------------------------------------
\* C1: after every operation, in any sequence, nflags is the number of flagged
\* squares and squares_revealed is the number of revealed squares.
C1_CountersMatch ==
    /\ nflags = Cardinality(Flagged)
    /\ squares_revealed = Cardinality(Revealed)

\* A cascading reveal has just returned on a board that also carries a flag.
C1_Witness ==
    /\ last[1] = "reveal"
    /\ last[2][1] >= 2
    /\ nflags = 1

\* C2 (as claimed): no square is both revealed and flagged.
C2_NeverRevealedAndFlagged == Revealed \cap Flagged = {}

\* C3 (as claimed): place_flag on a revealed square changes nothing.
C3_FlagOnRevealedIsNoOp ==
    [][\A i \in Range(nrows), j \in Range(ncols) :
         (Returns("place_flag") /\ tab[<<i, j>>].revealed /\ PlaceFlag(i, j)) => BoardUnchanged]_vars

\* C4 (as claimed): the revealed-count equality never holds together with a
\* revealed mine.
C4_EqualityExcludesRevealedMine == ~(CountEquality /\ Revealed \cap Mined # {})

\* C4 (amended): the equality can hold together with a revealed mine; whenever
\* it does, game_lost() is true, game_won() is false and some square without a
\* mine is still unrevealed.
C4_EqualityWithRevealedMine ==
    (CountEquality /\ Revealed \cap Mined # {}) =>
        /\ game_lost(Grid)
        /\ ~game_won(Grid)
        /\ \E p \in Positions : ~tab[p].mined /\ ~tab[p].revealed

\* A chording call has just revealed two squares or more, and the equality
\* holds together with a revealed mine.
C4_Witness ==
    /\ last[1] = "chording"
    /\ last[2][1] >= 2
    /\ CountEquality
    /\ Revealed \cap Mined # {}

\* C5: game_won() is true exactly when every square without a mine is revealed
\* and no mined square is; game_lost() exactly when a mined square is revealed.
C5_WonLostAgreeWithCells ==
    /\ game_won(Grid) <=> (Positions \ Mined \subseteq Revealed /\ Revealed \cap Mined = {})
    /\ game_lost(Grid) <=> (Revealed \cap Mined # {})

\* A game with a mine has been won by a reveal, with more than one square to reveal.
C5_Witness ==
    /\ game_won(Grid)
    /\ nmines >= 1
    /\ squares_revealed >= 2
    /\ last[1] = "reveal"

\* C6: every square's mines_nearby is the number of its mined neighbours, after
\* any place_mine calls and after any later reveal, chording or flag operation.
C6_MinesNearbyExact ==
    \A p \in Positions :
        tab[p].mines_nearby = Cardinality({q \in Mined : Adjacent(p, q)})

\* Two mines touch one square, and a reveal has followed the placement.
C6_Witness ==
    /\ \E p \in Positions : tab[p].mines_nearby = 2
    /\ last[1] = "reveal"
    /\ last[2][1] >= 1

\* C7: nmines is the number of mined squares, and 0 on a new or reset board.
C7_MineCountExact ==
    /\ nmines = Cardinality(Mined)
    /\ last[1] \in {"init", "reset"} => nmines = 0

\* place_mine has just placed a second mine.
C7_Witness ==
    /\ last = <<"place_mine", <<0, 0, 1>>>>
    /\ nmines = 2

\* C8: place_mine on a square that is already mined changes nothing, so a
\* second call counts neither the neighbours nor nmines again.
C8_PlaceMineIdempotent ==
    [][\A i \in Range(nrows), j \in Range(ncols) :
         (Returns("place_mine") /\ tab[<<i, j>>].mined /\ PlaceMine(i, j)) => BoardUnchanged]_vars

\* place_mine has just returned without adding a mine: it was called on a mine.
C8_Witness ==
    /\ last = <<"place_mine", <<0, 0, 0>>>>
    /\ \E p \in Positions : tab[p].mined /\ \E q \in Positions : Adjacent(p, q)

\* C9: reveal on a revealed or flagged square changes no revealed field and
\* not squares_revealed.
C9_RevealSkips ==
    [][\A i \in Range(nrows), j \in Range(ncols) :
         (/\ Returns("reveal")
          /\ tab[<<i, j>>].revealed \/ tab[<<i, j>>].flagged
          /\ Reveal(i, j))
            => (Revealed' = Revealed /\ squares_revealed' = squares_revealed)]_vars

\* reveal has just returned having revealed nothing, on a board with nothing
\* revealed: its square was flagged.
C9_Witness ==
    /\ last = <<"reveal", <<0, 0, 0>>>>
    /\ squares_revealed = 0
    /\ nflags = 1
    /\ Cardinality(Positions) >= 2

\* The squares a cascade reaches from the set `reached`: that set, and every
\* unrevealed unflagged neighbour of a reached square that has no mine and no
\* mine nearby (computed as a fixed point, not by the recursion of reveal).
RECURSIVE FloodFrom(_)
FloodFrom(reached) ==
    LET more == {q \in Positions :
                    /\ ~tab[q].revealed /\ ~tab[q].flagged
                    /\ \E p \in reached :
                          Adjacent(p, q) /\ ~tab[p].mined /\ tab[p].mines_nearby = 0}
    IN  IF more \subseteq reached THEN reached ELSE FloodFrom(reached \cup more)

\* C10: reveal on an unrevealed unflagged square reveals exactly the squares the
\* cascade reaches, and squares_revealed grows by their number.
C10_FloodFillExact ==
    [][\A i \in Range(nrows), j \in Range(ncols) :
         (/\ Returns("reveal")
          /\ ~tab[<<i, j>>].revealed /\ ~tab[<<i, j>>].flagged
          /\ Reveal(i, j))
            => /\ Revealed' = Revealed \cup FloodFrom({<<i, j>>})
               /\ squares_revealed' =
                      squares_revealed + Cardinality(FloodFrom({<<i, j>>}))]_vars

\* A reveal has cascaded over three squares or more on a board with a mine,
\* and has stopped short of some square.
C10_Witness ==
    /\ last[1] = "reveal"
    /\ last[2][1] >= 3
    /\ nmines >= 1
    /\ Positions \ Revealed # {}

----------------------------------------------------------------------------
(* The 3x3 board of the flood-fill example: g = GameGrid(3, 3), then any    *)
(* calls of reset, place_mine and reveal; no flag is ever placed on it.     *)

Init3x3 == Constructed(3, 3)

Next3x3 ==
    \/ Reset
    \/ \E i \in Range(nrows), j \in Range(ncols) : PlaceMine(i, j)
    \/ \E i \in Range(nrows), j \in Range(ncols) : Reveal(i, j)

Spec3x3 == Init3x3 /\ [][Next3x3]_vars

\* The squares whose cached count mines_nearby is n.
WithCount(n) == {p \in Positions : tab[p].mines_nearby = n}

\* A new game on the 3x3 board with its single mine at (2,2): nothing is
\* revealed and nothing is flagged.
OneMineAt22 ==
    /\ nrows = 3 /\ ncols = 3
    /\ Mined = {<<2, 2>>}
    /\ Flagged = {}
    /\ Revealed = {}

\* C11 (as claimed): on that board reveal(0,0) reveals (0,0),(0,1),(0,2),(1,0),
\* (1,1), each with mines_nearby 0, and (1,2),(2,0),(2,1), each with
\* mines_nearby 1, and leaves (2,2) unrevealed.
C11_FloodFill3x3AsClaimed ==
    [][(Returns("reveal") /\ OneMineAt22 /\ Reveal(0, 0)) =>
          /\ Revealed' = Positions \ {<<2, 2>>}
          /\ {<<0, 0>>, <<0, 1>>, <<0, 2>>, <<1, 0>>, <<1, 1>>} \subseteq WithCount(0)'
          /\ {<<1, 2>>, <<2, 0>>, <<2, 1>>} \subseteq WithCount(1)']_vars

\* C11 (amended): on that board reveal(0,0) reveals exactly the eight squares
\* without a mine and leaves (2,2) unrevealed; the revealed squares with
\* mines_nearby 0 are (0,0),(0,1),(0,2),(1,0),(2,0) and those with mines_nearby 1
\* are the three neighbours of the mine, (1,1),(1,2),(2,1).
C11_FloodFill3x3 ==
    [][(Returns("reveal") /\ OneMineAt22 /\ Reveal(0, 0)) =>
          /\ Revealed' = Positions \ {<<2, 2>>}
          /\ squares_revealed' = 8
          /\ WithCount(0)' \cap Revealed' = {<<0, 0>>, <<0, 1>>, <<0, 2>>, <<1, 0>>, <<2, 0>>}
          /\ WithCount(1)' \cap Revealed' = {<<1, 1>>, <<1, 2>>, <<2, 1>>}]_vars

\* reveal has just revealed eight squares of the 3x3 board whose single mine is
\* at (2,2), with nothing flagged, and (0,0) is among them.
C11_Witness ==
    /\ nrows = 3 /\ ncols = 3
    /\ last = <<"reveal", <<8, 0, 0>>>>
    /\ Mined = {<<2, 2>>}
    /\ Flagged = {}
    /\ Revealed = Positions \ {<<2, 2>>}

----------------------------------------------------------------------------
\* The neighbours of p on the grid.
Around(p) == {q \in Positions : Adjacent(p, q)}

\* C12: chording(i,j) with as many flagged neighbours as mines_nearby(i,j)
\* leaves every non-flagged neighbour revealed, the squares revealed being those
\* the cascades reach from the unrevealed non-flagged neighbours; with a
\* different number of flagged neighbours it changes nothing.  (Stated for
\* every chording step and every square: what the claim says of chording(i,j)
\* holds of the step, or the step is not chording(i,j).)
C12_Chording ==
    [][\A i \in Range(nrows), j \in Range(ncols) :
         Returns("chording") =>
            \/ IF Cardinality(Around(<<i, j>>) \cap Flagged) = tab[<<i, j>>].mines_nearby
               THEN /\ Around(<<i, j>>) \ Flagged \subseteq Revealed'
                    /\ Flagged' = Flagged
                    /\ Revealed' =
                         Revealed \cup FloodFrom(Around(<<i, j>>) \ (Flagged \cup Revealed))
               ELSE BoardUnchanged
            \/ ~Chording(i, j)]_vars

\* chording has just revealed squares next to a flagged square, on a board
\* with a mine: the flagged neighbours matched a positive mines_nearby.
C12_Witness ==
    /\ last[1] = "chording"
    /\ last[2][1] >= 1
    /\ nflags = 1
    /\ \E p \in Positions :
          /\ tab[p].mines_nearby = 1
          /\ Cardinality(Around(p) \cap Flagged) = 1
          /\ Around(p) \ Flagged # {}
          /\ Around(p) \ Flagged \subseteq Revealed

----------------------------------------------------------------------------
\* C13: random_game(N) with 0 <= N <= nrows*ncols, from any reachable board and
\* whichever positions are sampled, returns with nmines = N, exactly N mined
\* squares, no square revealed or flagged, and nflags = squares_revealed = 0.
C13_RandomGameResult ==
    (last[1] = "random_game" /\ asked <= nrows * ncols) =>
        /\ raised = ""
        /\ nmines = asked
        /\ Cardinality(Mined) = asked
        /\ Revealed = {} /\ Flagged = {}
        /\ nflags = 0 /\ squares_revealed = 0

\* random_game has just returned with two mines, on a board that had revealed
\* squares and a flag before the call.
C13_Witness ==
    /\ last[1] = "random_game"
    /\ last[2][1] <= -2
    /\ last[2][2] = -1
    /\ asked = 2
    /\ nmines = 2

----------------------------------------------------------------------------
\* C14: random_game(N) with N > nrows*ncols fails with an error: it never
\* returns normally, and no mine is on the board when it fails.
C14_TooManyMinesFails ==
    (last[1] = "random_game" /\ asked > nrows * ncols) =>
        /\ raised = "ValueError"
        /\ nmines = 0
        /\ Mined = {}

\* random_game has just raised on a board that carried a mine, a flag and
\* revealed squares when it was called.
C14_Witness ==
    /\ last[1] = "random_game"
    /\ raised = "ValueError"
    /\ asked = nrows * ncols + 1
    /\ last[2][1] <= -1 /\ last[2][2] = -1 /\ last[2][3] <= -1

----------------------------------------------------------------------------
(* The cell-addressed methods called with indices on and off the grid: the  *)
(* indices 0..n-1, the first ones outside them (-1 and n), and the first    *)
(* negative index that a Python list of length n rejects, -(n+1).           *)

AnyIndex(n) == {-(n + 1)} \cup (-1 .. n)

NextAnyIndex ==
    \/ Reset
    \/ \E i \in AnyIndex(nrows), j \in AnyIndex(ncols) : PlaceMine(i, j)
    \/ \E i \in AnyIndex(nrows), j \in AnyIndex(ncols) : Reveal(i, j)
    \/ \E i \in AnyIndex(nrows), j \in AnyIndex(ncols) : PlaceFlag(i, j)
    \/ \E i \in AnyIndex(nrows), j \in AnyIndex(ncols) : RemoveFlag(i, j)
    \/ \E q \in Queries : \E i \in AnyIndex(nrows), j \in AnyIndex(ncols) : Query(q, i, j)

\* g = GameGrid(r, c), for any dimensions giving fewer than MaxCells squares.
InitAnyIndex == \E r, c \in 1 .. MaxCells : r * c < MaxCells /\ Constructed(r, c)

SpecAnyIndex == InitAnyIndex /\ [][NextAnyIndex]_vars

\* (i, j) is a coordinate of the grid, in 0..nrows-1 x 0..ncols-1.
OnGrid(i, j) == i \in Range(nrows) /\ j \in Range(ncols)

\* C15 (as claimed): is_revealed, is_flagged, mine_at, mines_nearby, reveal,
\* place_flag, remove_flag and place_mine, called with a coordinate outside
\* 0..nrows-1 x 0..ncols-1, negative ones included, raise an error and change
\* no square.
C15_OutOfRangeRejected ==
    [][\A i \in AnyIndex(nrows), j \in AnyIndex(ncols) :
         (/\ ~OnGrid(i, j)
          /\ \/ Reveal(i, j) \/ PlaceFlag(i, j) \/ RemoveFlag(i, j) \/ PlaceMine(i, j)
             \/ \E q \in Queries : Query(q, i, j))
            => (raised' # "" /\ BoardUnchanged)]_vars

----------------------------------------------------------------------------
(* reveal, statement by statement: the recursion of lines 139-151 with its  *)
(* call stack, between calls of reset, place_mine, place_flag, remove_flag. *)

Frame(i, j, k) == [i |-> i, j |-> j, k |-> k]

\* The frame of the call that is running, and the stack once it returns.
Top == stack[Len(stack)]
Popped == SubSeq(stack, 1, Len(stack) - 1)

\* One step of the running call: the fields become those of h, the stack stk,
\* the marked squares mk; the outermost call returns when stk is empty.
Step(h, stk, mk) ==
    /\ nrows' = h.nrows
    /\ ncols' = h.ncols
    /\ tab' = h.tab
    /\ nmines' = h.nmines
    /\ nflags' = h.nflags
    /\ squares_revealed' = h.squares_revealed
    /\ last' = <<IF stk = <<>> THEN "reveal" ELSE "reveal in progress",
                 <<last[2][1] + Effect(Grid, h)[1],
                   last[2][2] + Effect(Grid, h)[2],
                   last[2][3] + Effect(Grid, h)[3]>>>>
    /\ raised' = ""
    /\ asked' = 0
    /\ stack' = stk
    /\ marked' = mk
    /\ UNCHANGED <<started, root>>

\* g.reveal(i, j) is called.
RevealCall(i, j) ==
    /\ stack = <<>>
    /\ stack' = <<Frame(i, j, 0)>>
    /\ marked' = <<>>
    /\ last' = <<"reveal in progress", <<0, 0, 0>>>>
    /\ raised' = ""
    /\ asked' = 0
    /\ UNCHANGED <<nrows, ncols, tab, nmines, nflags, squares_revealed, started, root>>

\* Lines 143-148: the guard, the marking and the test for a cascade.
RevealEnter ==
    /\ stack # <<>>
    /\ Top.k = 0
    /\ IF reveal_skips(Grid, Top.i, Top.j) THEN Step(Grid, Popped, marked)
       ELSE \E h \in {reveal_mark(Grid, Top.i, Top.j)} :
              Step(h,
                   IF reveal_cascades(h, Top.i, Top.j)
                   THEN Append(Popped, Frame(Top.i, Top.j, 1)) ELSE Popped,
                   Append(marked, pos(Grid, Top.i, Top.j)))

\* Lines 149-151: the loop calls reveal on its next neighbour, or is over.
RevealLoop ==
    /\ stack # <<>>
    /\ Top.k >= 1
    /\ IF Top.k > Len(neighbors(Grid, Top.i, Top.j)) THEN Step(Grid, Popped, marked)
       ELSE \E n \in {neighbors(Grid, Top.i, Top.j)[Top.k]} :
              Step(Grid,
                   Append(Append(Popped, Frame(Top.i, Top.j, Top.k + 1)),
                          Frame(n[1], n[2], 0)),
                   marked)

NextSteps ==
    \/ stack = <<>> /\ Reset
    \/ stack = <<>> /\ \E i \in Range(nrows), j \in Range(ncols) : PlaceMine(i, j)
    \/ stack = <<>> /\ \E i \in Range(nrows), j \in Range(ncols) : PlaceFlag(i, j)
    \/ stack = <<>> /\ \E i \in Range(nrows), j \in Range(ncols) : RemoveFlag(i, j)
    \/ \E i \in Range(nrows), j \in Range(ncols) : RevealCall(i, j)
    \/ RevealEnter
    \/ RevealLoop

\* No operation suspends (the code is single-threaded and synchronous): a call
\* of reveal that has a next statement executes it.
SpecSteps == Init /\ [][NextSteps]_vars /\ WF_vars(RevealEnter \/ RevealLoop)

\* C16: every call of reveal terminates, and within one call each square is
\* marked revealed, and counted in squares_revealed, at most once: the squares
\* marked are distinct, at most nrows*ncols many and as many as the call has
\* added to squares_revealed, and the frames never outnumber the squares by
\* more than one.
C16_RevealTerminates ==
    /\ [](/\ \A a, b \in 1 .. Len(marked) : marked[a] = marked[b] => a = b
          /\ Len(marked) <= nrows * ncols
          /\ last[1] \in {"reveal", "reveal in progress"} => Len(marked) = last[2][1]
          /\ squares_revealed = Cardinality(Revealed)
          /\ Len(stack) <= nrows * ncols + 1)
    /\ (stack # <<>>) ~> (stack = <<>>)

\* A call of reveal has returned after marking every square of a 2x2 board:
\* the cascade ran through four frames.
C16_Witness ==
    /\ stack = <<>>
    /\ last = <<"reveal", <<4, 0, 0>>>>
    /\ Len(marked) = 4
    /\ nrows = 2

----------------------------------------------------------------------------
\* C17: a revealed square stays revealed across reveal, chording, place_flag,
\* remove_flag and place_mine; only reset and random_game make a revealed
\* square unrevealed.
C17_RevealedMonotonic ==
    [][/\ last'[1] \in {"reveal", "chording", "place_flag", "remove_flag", "place_mine"}
          => Revealed \subseteq Revealed'
       /\ ~(Revealed \subseteq Revealed') => last'[1] \in {"reset", "random_game"}]_vars

\* place_mine has just placed a mine on a revealed square, next to a revealed
\* square, while a flag stands on the board.
C17_Witness ==
    /\ last = <<"place_mine", <<0, 0, 1>>>>
    /\ nflags = 1
    /\ \E p \in Mined \cap Revealed : Around(p) \cap Revealed # {}

\* C18: reveal(i,j) on a square without a mine reveals no mined square, so it
\* never turns game_lost() from false to true; a mined square becomes revealed
\* only as the target of reveal or as a neighbour of the square chording is
\* called on.
C18_CascadeSafety ==
    [][/\ \A i \in Range(nrows), j \in Range(ncols) :
            (Returns("reveal") /\ ~tab[<<i, j>>].mined /\ Reveal(i, j)) =>
               /\ (Revealed' \ Revealed) \cap Mined = {}
               /\ ~game_lost(Grid) => Revealed' \cap Mined' = {}
       /\ \A p \in (Revealed' \ Revealed) \cap Mined :
            \/ Returns("reveal") /\ Reveal(p[1], p[2])
            \/ Returns("chording") /\ \E q \in Around(p) : Chording(q[1], q[2])]_vars

\* reveal has just cascaded over two squares or more on a board with a mine and
\* no mine is revealed: the cascade stopped at the squares that touch the mine.
C18_Witness ==
    /\ last[1] = "reveal"
    /\ last[2][1] >= 2
    /\ nmines >= 1
    /\ Revealed \cap Mined = {}
    /\ \E p \in Revealed : tab[p].mines_nearby >= 1

----------------------------------------------------------------------------
\* The flagged, mined and mines_nearby fields of every square.
OtherFields == [p \in Positions |-> <<tab[p].flagged, tab[p].mined, tab[p].mines_nearby>>]

\* C19 (as claimed): reveal and chording change only revealed fields and
\* squares_revealed, and a square that is flagged when the call starts is
\* still flagged and unrevealed when it returns.
C19_RevealFrame ==
    [][(Returns("reveal") \/ Returns("chording")) =>
          /\ OtherFields' = OtherFields
          /\ nflags' = nflags /\ nmines' = nmines
          /\ nrows' = nrows /\ ncols' = ncols
          /\ \A p \in Flagged : tab'[p].flagged /\ ~tab'[p].revealed]_vars

----------------------------------------------------------------------------
(* MinesweeperApp: the handlers that drive the GameGrid.  An app value a is *)
(* a record [g, started, root, raised]: the game, the started field, the    *)
(* Tk root ("mainloop" until root.destroy()) and the exception that left    *)
(* the handler, if any.  Drawing (draw_board, draw_cell) and the clock only *)
(* read the game and are left out.                                          *)

\* new_game: reset, then random_game with the number of mines there was.
new_game(a) ==
    {IF r.raised # ""
     THEN [a EXCEPT !.g = reset(reset(a.g)), !.raised = r.raised]
     ELSE [a EXCEPT !.g = random_game(reset(a.g), r.value), !.started = FALSE] :
        r \in random_sample(reset(a.g), a.g.nmines)}

\* game_over: the player answers yes (new_game) or no (root.destroy()).
game_over(a, win) == new_game(a) \cup {[a EXCEPT !.root = "destroyed"]}

\* The end of left_click_handler: the tests of game_lost and of game_won.
left_click_end(a) ==
    UNION {IF b.raised = "" /\ game_won(b.g) THEN game_over(b, TRUE) ELSE {b} :
             b \in (IF game_lost(a.g) THEN game_over(a, FALSE) ELSE {a})}

left_click_handler(a, i, j) ==
    IF is_flagged(a.g, i, j) THEN {[a EXCEPT !.started = TRUE]}
    ELSE IF is_revealed(a.g, i, j)
    THEN UNION {left_click_end([a EXCEPT !.started = TRUE, !.g = h]) :
                  h \in {chording(a.g, i, j)}}
    ELSE UNION {left_click_end([a EXCEPT !.started = TRUE, !.g = h]) :
                  h \in {reveal(a.g, i, j)}}

\* right_click_handler without the test of is_revealed.
right_click_handler_unguarded(a, i, j) ==
    IF ~is_flagged(a.g, i, j) THEN [a EXCEPT !.g = place_flag(a.g, i, j)]
    ELSE [a EXCEPT !.g = remove_flag(a.g, i, j)]

right_click_handler(a, i, j) ==
    IF is_revealed(a.g, i, j) THEN a
    ELSE IF ~is_flagged(a.g, i, j) THEN [a EXCEPT !.g = place_flag(a.g, i, j)]
    ELSE [a EXCEPT !.g = remove_flag(a.g, i, j)]

\* The app as a value.
App == [g |-> Grid, started |-> started, root |-> root, raised |-> ""]

\* The handler `op` ends with the app equal to b.
Handled(b, op) ==
    /\ nrows' = b.g.nrows
    /\ ncols' = b.g.ncols
    /\ tab' = b.g.tab
    /\ nmines' = b.g.nmines
    /\ nflags' = b.g.nflags
    /\ squares_revealed' = b.g.squares_revealed
    /\ last' = <<op, Effect(Grid, b.g)>>
    /\ raised' = b.raised
    /\ asked' = 0
    /\ started' = b.started
    /\ root' = b.root
    /\ UNCHANGED <<stack, marked>>

\* Events are delivered while the main loop runs.
LeftClick(i, j) ==
    /\ root = "mainloop"
    /\ \E b \in left_click_handler(App, i, j) : Handled(b, "left_click_handler")

RightClick(i, j) ==
    /\ root = "mainloop"
    /\ (nflags < MaxFlags \/ is_flagged(Grid, i, j) \/ is_revealed(Grid, i, j))
    /\ \E b \in {right_click_handler(App, i, j)} : Handled(b, "right_click_handler")

\* The "New game" button.
NewGame ==
    /\ root = "mainloop"
    /\ \E b \in new_game(App) : Handled(b, "new_game")

\* g = GameGrid(r, c); g.random_game(n); app = MinesweeperApp(g); app.run()
InitApp ==
    \E r, c \in 1 .. MaxCells : \E n \in 0 .. MaxMines :
        /\ r * c <= MaxCells
        /\ n <= r * c
        /\ \E s \in Samples(GameGrid(r, c), n) :
             \E h \in {random_game(GameGrid(r, c), s)} :
                /\ nrows = h.nrows
                /\ ncols = h.ncols
                /\ tab = h.tab
                /\ nmines = h.nmines
                /\ nflags = h.nflags
                /\ squares_revealed = h.squares_revealed
        /\ last = <<"init", <<0, 0, 0>>>>
        /\ raised = ""
        /\ asked = 0
        /\ stack = <<>>
        /\ marked = <<>>
        /\ started = FALSE
        /\ root = "mainloop"

NextApp ==
    \/ NewGame
    \/ \E i \in Range(nrows), j \in Range(ncols) : LeftClick(i, j)
    \/ \E i \in Range(nrows), j \in Range(ncols) : RightClick(i, j)

SpecApp == InitApp /\ [][NextApp]_vars

\* C20: driven through left_click_handler, right_click_handler and new_game
\* only, no square is ever both revealed and flagged; a left click on a flagged
\* square and a right click on a revealed square leave the board as it was.
C20_HandlersKeepApart ==
    /\ [](Revealed \cap Flagged = {})
    /\ [][\A i \in Range(nrows), j \in Range(ncols) :
            /\ (Returns("left_click_handler") /\ tab[<<i, j>>].flagged /\ LeftClick(i, j))
                  => BoardUnchanged
            /\ (Returns("right_click_handler") /\ tab[<<i, j>>].revealed /\ RightClick(i, j))
                  => BoardUnchanged]_vars

\* A right click has just changed nothing (it was on a revealed square) while
\* another square carries a flag and the game goes on.
C20_Witness ==
    /\ last = <<"right_click_handler", <<0, 0, 0>>>>
    /\ root = "mainloop"
    /\ nflags = 1
    /\ squares_revealed >= 1

====
